---- MODULE Spec2Model ----
(***************************************************************************)
(* Chain-to-store synchronizer of LineraFlow.                              *)
(*                                                                         *)
(* Two indexer programs of the repository are modelled against one ledger  *)
(* and one PocketBase mirror:                                              *)
(*   - the coordinated indexer (src/unnamed/part_009): performSync with    *)
(*     the isSyncing / pendingSync flags, syncProfiles, syncDonations,     *)
(*     syncProducts, start, startPolling;                                  *)
(*   - the indexer of src/indexer/index.js, whose notification and polling *)
(*     handlers call the three sync functions directly.                    *)
(***************************************************************************)
EXTENDS Integers, Sequences, FiniteSets, TLC

(***************************************************************************)
(* Bounds of the model.                                                    *)
(***************************************************************************)
MaxTimeouts == 2
MaxFaults == 1
MaxLedgerChanges == 1
MaxProcs == 2
MaxFlows == 2

(***************************************************************************)
(* Value domains.                                                          *)
(***************************************************************************)
NoHash == ""
Hashes == {"h1", "h2"}

\* parseFloat(p.price || '0') on the price strings the ledger returns
ParsePrice(s) ==
    CASE s = "5" -> 5
      [] s = "7" -> 7
      [] s = "10" -> 10
      [] OTHER -> 0

\* parseFloat(String(d.amount).replace(/\.$/, '')) || 0
ParseAmount(s) ==
    CASE s = "1" -> 1
      [] s = "1." -> 1
      [] s = "2" -> 2
      [] s = "2." -> 2
      [] OTHER -> 0

\* the elements of a sequence
Range(s) == {s[i] : i \in 1..Len(s)}

\* a finite set of records as a sequence, newest first (sort: '-created_at')
RECURSIVE SortDesc(_)
SortDesc(S) ==
    IF S = {} THEN << >>
    ELSE LET newest == CHOOSE r \in S : \A q \in S : q.lid <= r.lid
         IN <<newest>> \o SortDesc(S \ {newest})

(***************************************************************************)
(* The ledger: what allProfilesView, allDonations, allProducts and         *)
(* dataBlob can answer.  Records keep the field names of the queries.      *)
(***************************************************************************)
Donation1 == [id |-> "d1", from |-> "a", to |-> "b", timestamp |-> "t1", amount |-> "1"]
Donation2Same == [id |-> "d2", from |-> "a", to |-> "b", timestamp |-> "t1", amount |-> "1."]

Product1Versions ==
    { [id |-> "p1", price |-> "5", image_preview_hash |-> h] : h \in {NoHash} \cup Hashes }
    \cup { [id |-> "p1", price |-> "7", image_preview_hash |-> NoHash] }
Product2 == [id |-> "p2", price |-> "10", image_preview_hash |-> NoHash]

ProductSnaps ==
    { << >>, <<Product2>> }
    \cup { <<p>> : p \in Product1Versions }
    \cup { <<p, Product2>> : p \in Product1Versions }

(***************************************************************************)
(* What the HTTP endpoint can answer to one query (fetch, response.ok,     *)
(* response.json()).                                                       *)
(***************************************************************************)
ResponseKinds == {"ok", "transport", "http", "httpText", "errNoData", "errData", "errNull"}

\* fetchGraphQL of the coordinated indexer: never throws; a transport failure
\* and a non-success status become { errors }, anything else is the parsed body.
\* The result is [data, list]: whether result.data is set, and result.data.<field> || [].
fetchGraphQL(kind, payload) ==
    CASE kind = "ok" -> [data |-> TRUE, list |-> payload]
      [] kind = "errData" -> [data |-> TRUE, list |-> payload]
      [] kind = "errNull" -> [data |-> TRUE, list |-> << >>]
      [] OTHER -> [data |-> FALSE, list |-> << >>]

(***************************************************************************)
(* State.                                                                  *)
(***************************************************************************)
VARIABLES
    \* the ledger
    ledProfiles, ledDonations, ledProducts, blobStore, ledChanges,
    \* the mirror (PocketBase collections) and its creation clock
    profiles, donations, products, nextId,
    \* failures injected so far (ledger, blob and store calls)
    faults,
    \* coordinated indexer: flags, timers, subscription, position of start()
    isSyncing, pendingSync, timeouts, pollTimers, sub, boot,
    \* coordinated indexer: position and locals of the running pass
    pc, fetched, idx, existing,
    \* observers of the coordinator: passes in execution; triggers that arrived
    \* during the running pass; whether the last pass to complete had two or
    \* more of them with none since, and the passes started since it completed;
    \* whether a trigger arrived during a pass and no pass has started since
    running, burst, armed, extra, owed,
    \* observers of the running pass: the mirror when it started, what each
    \* query answered, whether a store call failed, the products whose blob
    \* request failed, the products whose blob was requested; whether the
    \* previous pass met no failure and the ledger is still the one it saw; and
    \* the hashes a blob request was answered for with no data
    atStart, seen, storeErr, blobFailed, asked, prev, notFound,
    \* indexer of index.js: position of start(), subscription, interval timers,
    \* and the passes in execution (each with its position, its locals and
    \* what it saw)
    ixBoot, ixSub, ixPoll, procs,
    \* LineraProvider of the web client: state.status, and the calls of
    \* connectWallet in execution, each at the call it awaits
    status, flows

ledgerVars == <<ledProfiles, ledDonations, ledProducts, blobStore, ledChanges>>
mirrorVars == <<profiles, donations, products, nextId>>
coordVars == <<isSyncing, pendingSync, timeouts, pollTimers, sub, boot>>
passVars == <<pc, fetched, idx, existing>>
triggerObs == <<burst, armed, extra, owed>>
passObs == <<atStart, seen, storeErr, blobFailed, asked>>
indexerVars == <<coordVars, passVars, running, triggerObs, passObs, prev, notFound>>
ixVars == <<ixBoot, ixSub, ixPoll, procs>>
walletVars == <<status, flows>>
vars == <<ledgerVars, mirrorVars, faults, indexerVars, ixVars, walletVars>>

Min(a, b) == IF a < b THEN a ELSE b

\* a slot for a pass of index.js that holds none
FreeProc ==
    [pc |-> "free", fetched |-> << >>, idx |-> 0, found |-> 0,
     seen |-> "none", storeErr |-> FALSE, deleted |-> FALSE]

(***************************************************************************)
(* Injected failures.  A call that fails costs one of MaxFaults.           *)
(***************************************************************************)
\* outcomes of one store call: TRUE = it succeeds, FALSE = it throws
StoreOutcomes == IF faults < MaxFaults THEN {TRUE, FALSE} ELSE {TRUE}

\* answers the endpoint can still give to one query
Answers == IF faults < MaxFaults THEN ResponseKinds ELSE {"ok"}

Cost(ok) == IF ok THEN 0 ELSE 1

\* sets of calls that may fail together within the remaining failures
FailingSubsets(S) == {F \in SUBSET S : faults + Cardinality(F) <= MaxFaults}

(***************************************************************************)
(* Coordinated indexer: performSync, start, startPolling.                  *)
(***************************************************************************)
\* nothing fetched yet in this pass
NoneSeen == [profiles |-> "none", donations |-> "none", products |-> "none"]

\* an answer as the caller of the query has to take it: "failed" for a
\* transport failure, a non-success status or errors without data; "errors"
\* for an error list that comes with data; else "ok"
Outcome(kind) ==
    CASE kind = "ok" -> "ok"
      [] kind \in {"errData", "errNull"} -> "errors"
      [] OTHER -> "failed"

\* a variant in which a call during a pass restarts the pass
performSyncRestarting ==
    IF isSyncing
    THEN /\ pendingSync' = TRUE
         /\ pc' = "syncProfiles"
         /\ fetched' = << >>
         /\ idx' = 0
         /\ UNCHANGED <<isSyncing, existing, running, passObs>>
    ELSE /\ isSyncing' = TRUE
         /\ pc' = "syncProfiles"
         /\ fetched' = << >>
         /\ idx' = 0
         /\ existing' = 0
         /\ running' = running + 1
         /\ atStart' = [profiles |-> profiles, donations |-> donations, products |-> products]
         /\ seen' = NoneSeen
         /\ storeErr' = FALSE
         /\ blobFailed' = {}
         /\ asked' = {}
         /\ UNCHANGED pendingSync

\* one call of performSync(), up to its first await
performSync ==
    IF isSyncing
    THEN /\ pendingSync' = TRUE
         /\ UNCHANGED <<isSyncing, passVars, running, passObs>>
    ELSE /\ isSyncing' = TRUE
         /\ pc' = "syncProfiles"
         /\ fetched' = << >>
         /\ idx' = 0
         /\ existing' = 0
         /\ running' = running + 1
         /\ atStart' = [profiles |-> profiles, donations |-> donations, products |-> products]
         /\ seen' = NoneSeen
         /\ storeErr' = FALSE
         /\ blobFailed' = {}
         /\ asked' = {}
         /\ UNCHANGED pendingSync

\* what a call of performSync() means to the observers of the triggers; a
\* trigger is a notification or a tick of the polling timer (external), the
\* delayed re-run of the finally block is not
Arrival(external) ==
    /\ burst' = IF ~isSyncing THEN 0
                ELSE IF external THEN Min(burst + 1, 2) ELSE burst
    /\ owed' = IF ~isSyncing THEN FALSE
               ELSE IF external THEN TRUE ELSE owed
    /\ armed' = IF external THEN FALSE ELSE armed
    /\ extra' = IF external THEN 0
                ELSE IF ~isSyncing /\ armed THEN Min(extra + 1, 2) ELSE extra

\* start(): await performSync()
Start ==
    /\ boot = "init"
    /\ boot' = "initialSync"
    /\ performSync
    /\ Arrival(FALSE)
    /\ UNCHANGED <<ledgerVars, mirrorVars, faults, timeouts, pollTimers, sub, prev, notFound>>
    /\ UNCHANGED <<ixVars, walletVars>>

\* start(): the initial pass returned; createClient and wsClient.subscribe
Subscribe ==
    /\ boot = "initialSync"
    /\ ~isSyncing
    /\ boot' = "subscribed"
    /\ sub' = "active"
    /\ UNCHANGED <<ledgerVars, mirrorVars, faults, isSyncing, pendingSync,
                   timeouts, pollTimers, passVars, running, triggerObs, passObs, prev, notFound>>
    /\ UNCHANGED <<ixVars, walletVars>>

\* subscribe callback next: the notification of a block that leaves the
\* application state alone
Notify ==
    /\ sub = "active"
    /\ timeouts < MaxTimeouts
    /\ performSync
    /\ Arrival(TRUE)
    /\ UNCHANGED <<ledgerVars, mirrorVars, faults, timeouts, pollTimers, sub, boot, prev, notFound>>
    /\ UNCHANGED <<ixVars, walletVars>>

\* startPolling(): setInterval(performSync, 10000)
startPolling == pollTimers' = pollTimers + 1

\* subscribe callback error
SubscriptionError ==
    /\ sub = "active"
    /\ sub' = "error"
    /\ startPolling
    /\ UNCHANGED <<ledgerVars, mirrorVars, faults, isSyncing, pendingSync,
                   timeouts, boot, passVars, running, triggerObs, passObs, prev, notFound>>
    /\ UNCHANGED <<ixVars, walletVars>>

\* subscribe callback complete: only logs
SubscriptionComplete ==
    /\ sub = "active"
    /\ sub' = "complete"
    /\ UNCHANGED <<ledgerVars, mirrorVars, faults, isSyncing, pendingSync,
                   timeouts, pollTimers, boot, passVars, running, triggerObs,
                   passObs, prev, notFound>>
    /\ UNCHANGED <<ixVars, walletVars>>

\* the interval timer of startPolling fires
PollTick ==
    /\ pollTimers > 0
    /\ timeouts < MaxTimeouts
    /\ performSync
    /\ Arrival(TRUE)
    /\ UNCHANGED <<ledgerVars, mirrorVars, faults, timeouts, pollTimers, sub, boot, prev, notFound>>
    /\ UNCHANGED <<ixVars, walletVars>>

\* a setTimeout(performSync, 500) of the finally block fires
TimeoutFire ==
    /\ timeouts > 0
    /\ timeouts' = timeouts - 1
    /\ performSync
    /\ Arrival(FALSE)
    /\ UNCHANGED <<ledgerVars, mirrorVars, faults, pollTimers, sub, boot, prev, notFound>>
    /\ UNCHANGED <<ixVars, walletVars>>

\* a variant of the finally block that drops the pending flag
RequeueNever == timeouts

\* the finally block: the timers outstanding after it
Requeue == IF pendingSync THEN timeouts + 1 ELSE timeouts

\* did every query of the pass answer and every store and blob call succeed
CleanPass ==
    /\ \A t \in {"profiles", "donations", "products"} : seen[t] = "ok"
    /\ ~storeErr
    /\ blobFailed = {}

\* a variant of the finally block that does not reset pendingSync
FinallyKeepsPending ==
    /\ pc = "finally"
    /\ isSyncing' = FALSE
    /\ pendingSync' = pendingSync
    /\ timeouts' = Requeue
    /\ pc' = "idle"
    /\ fetched' = << >>
    /\ running' = running - 1
    /\ burst' = 0
    /\ armed' = IF burst >= 2 THEN TRUE ELSE armed
    /\ extra' = IF burst >= 2 THEN 0 ELSE extra
    /\ prev' = CleanPass
    /\ atStart' = [profiles |-> {}, donations |-> {}, products |-> {}]
    /\ seen' = NoneSeen
    /\ storeErr' = FALSE
    /\ blobFailed' = {}
    /\ asked' = {}
    /\ UNCHANGED <<ledgerVars, mirrorVars, faults, pollTimers, sub, boot, idx,
                   existing, owed, notFound>>
    /\ UNCHANGED <<ixVars, walletVars>>

\* performSync: the finally block
Finally ==
    /\ pc = "finally"
    /\ isSyncing' = FALSE
    /\ pendingSync' = FALSE
    /\ timeouts' = Requeue
    /\ pc' = "idle"
    /\ fetched' = << >>
    /\ running' = running - 1
    /\ burst' = 0
    /\ armed' = IF burst >= 2 THEN TRUE ELSE armed
    /\ extra' = IF burst >= 2 THEN 0 ELSE extra
    /\ prev' = CleanPass
    /\ atStart' = [profiles |-> {}, donations |-> {}, products |-> {}]
    /\ seen' = NoneSeen
    /\ storeErr' = FALSE
    /\ blobFailed' = {}
    /\ asked' = {}
    /\ UNCHANGED <<ledgerVars, mirrorVars, faults, pollTimers, sub, boot, idx,
                   existing, owed, notFound>>
    /\ UNCHANGED <<ixVars, walletVars>>

(***************************************************************************)
(* Coordinated indexer: syncProfiles.                                      *)
(***************************************************************************)
\* the for-loop moves to the next record, or the function goes on after it
Advance(loopPc, donePc) ==
    /\ idx' = IF idx < Len(fetched) THEN idx + 1 ELSE 0
    /\ pc' = IF idx < Len(fetched) THEN loopPc ELSE donePc
    /\ UNCHANGED fetched

\* a variant in which a query without data ends the whole pass
EnterAborting(result, loopPc, donePc, skipPc) ==
    /\ fetched' = result.list
    /\ idx' = IF result.data /\ result.list # << >> THEN 1 ELSE 0
    /\ pc' = IF ~result.data THEN "finally"
             ELSE IF result.list # << >> THEN loopPc ELSE donePc

\* the query returned: without data the function returns (skipPc); with data
\* the loop is entered (loopPc), or passed over when the list is empty (donePc)
Enter(result, loopPc, donePc, skipPc) ==
    /\ fetched' = result.list
    /\ idx' = IF result.data /\ result.list # << >> THEN 1 ELSE 0
    /\ pc' = IF ~result.data THEN skipPc
             ELSE IF result.list # << >> THEN loopPc ELSE donePc

\* the answer to the query of entity type t, for the observers
Seen(t, kind) == [seen EXCEPT ![t] = Outcome(kind)]

\* syncProfiles: fetchGraphQL(query) and the check of result.data
SyncProfilesFetch ==
    /\ pc = "syncProfiles"
    /\ \E kind \in Answers :
         /\ faults' = faults + Cost(kind = "ok")
         /\ Enter(fetchGraphQL(kind, ledProfiles), "profile", "syncDonations", "syncDonations")
         /\ seen' = Seen("profiles", kind)
    /\ UNCHANGED <<ledgerVars, mirrorVars, coordVars, existing, running, triggerObs,
                   atStart, storeErr, blobFailed, asked, prev, notFound>>
    /\ UNCHANGED <<ixVars, walletVars>>

\* pb.collection('profiles').update(existing.id, {...})
UpdateProfile(r, p) == (profiles \ {r}) \cup {[r EXCEPT !.name = p.name]}

\* pb.collection('profiles').create({...})
CreateProfile(p) == profiles \cup {[lid |-> nextId, owner |-> p.owner, name |-> p.name]}

\* syncProfiles: one iteration of the loop over the profiles
ProfileStep ==
    /\ pc = "profile"
    /\ LET p == fetched[idx]
           matches == {r \in profiles : r.owner = p.owner}
       IN \E lookupOk \in StoreOutcomes :
            IF ~lookupOk
            THEN \* getFirstListItem fails with a status other than 404: swallowed
                 /\ faults' = faults + 1
                 /\ storeErr' = TRUE
                 /\ Advance("profile", "syncDonations")
                 /\ UNCHANGED mirrorVars
            ELSE IF matches # {}
            THEN \E r \in matches : \E ok \in StoreOutcomes :
                   /\ faults' = faults + Cost(ok)
                   /\ storeErr' = IF ok THEN storeErr ELSE TRUE
                   /\ profiles' = IF ok THEN UpdateProfile(r, p) ELSE profiles
                   /\ Advance("profile", "syncDonations")
                   /\ UNCHANGED <<donations, products, nextId>>
            ELSE \* 404: create inside the catch block; a throw leaves the loop
                 \E ok \in StoreOutcomes :
                   /\ faults' = faults + Cost(ok)
                   /\ storeErr' = IF ok THEN storeErr ELSE TRUE
                   /\ profiles' = IF ok THEN CreateProfile(p) ELSE profiles
                   /\ nextId' = IF ok THEN nextId + 1 ELSE nextId
                   /\ idx' = IF ok /\ idx < Len(fetched) THEN idx + 1 ELSE 0
                   /\ pc' = IF ok /\ idx < Len(fetched) THEN "profile" ELSE "syncDonations"
                   /\ UNCHANGED <<fetched, donations, products>>
    /\ UNCHANGED <<ledgerVars, coordVars, existing, running, triggerObs, atStart,
                   seen, blobFailed, asked, prev, notFound>>
    /\ UNCHANGED <<ixVars, walletVars>>

(***************************************************************************)
(* Coordinated indexer: syncDonations.                                     *)
(***************************************************************************)
SyncDonationsFetch ==
    /\ pc = "syncDonations"
    /\ \E kind \in Answers :
         /\ faults' = faults + Cost(kind = "ok")
         /\ Enter(fetchGraphQL(kind, ledDonations), "donation", "syncProducts", "syncProducts")
         /\ seen' = Seen("donations", kind)
    /\ UNCHANGED <<ledgerVars, mirrorVars, coordVars, existing, running, triggerObs,
                   atStart, storeErr, blobFailed, asked, prev, notFound>>
    /\ UNCHANGED <<ixVars, walletVars>>

\* a variant of the lookup whose filter matches no record
DonationMatchesNever(d) == {r \in donations : FALSE}

\* the filter of the lookup: from_owner, to_owner, timestamp and amount
DonationMatches(d) ==
    {r \in donations : /\ r.from_owner = d.from
                       /\ r.to_owner = d.to
                       /\ r.timestamp = d.timestamp
                       /\ r.amount = ParseAmount(d.amount)}

\* pb.collection('donations').create({...})
CreateDonation(d) ==
    donations \cup {[lid |-> nextId, from_owner |-> d.from, to_owner |-> d.to,
                     timestamp |-> d.timestamp, amount |-> ParseAmount(d.amount)]}

\* syncDonations: one iteration of the loop over the donations
DonationStep ==
    /\ pc = "donation"
    /\ LET d == fetched[idx]
       IN \E lookupOk \in StoreOutcomes :
            IF lookupOk /\ DonationMatches(d) = {}
            THEN \E ok \in StoreOutcomes :
                   /\ faults' = faults + Cost(ok)
                   /\ storeErr' = IF ok THEN storeErr ELSE TRUE
                   /\ donations' = IF ok THEN CreateDonation(d) ELSE donations
                   /\ nextId' = IF ok THEN nextId + 1 ELSE nextId
            ELSE /\ faults' = faults + Cost(lookupOk)
                 /\ storeErr' = IF lookupOk THEN storeErr ELSE TRUE
                 /\ UNCHANGED <<donations, nextId>>
    /\ Advance("donation", "syncProducts")
    /\ UNCHANGED <<ledgerVars, profiles, products, coordVars, existing, running,
                   triggerObs, atStart, seen, blobFailed, asked, prev, notFound>>
    /\ UNCHANGED <<ixVars, walletVars>>

(***************************************************************************)
(* Coordinated indexer: syncProducts.                                      *)
(***************************************************************************)
SyncProductsFetch ==
    /\ pc = "syncProducts"
    /\ \E kind \in Answers :
         /\ faults' = faults + Cost(kind = "ok")
         /\ Enter(fetchGraphQL(kind, ledProducts), "product", "deleteOrphans", "finally")
         /\ seen' = Seen("products", kind)
    /\ UNCHANGED <<ledgerVars, mirrorVars, coordVars, existing, running, triggerObs,
                   atStart, storeErr, blobFailed, asked, prev, notFound>>
    /\ UNCHANGED <<ixVars, walletVars>>

\* the records that survive deleting `targets` when the deletes of `failed` throw
DeleteAll(targets, failed) == {r \in products : r.lid \notin (targets \ failed)}

\* getFullList({ filter: product_id = id, sort: '-created_at' })
Duplicates(id) == SortDesc({r \in products : r.product_id = id})

\* a variant of existing that takes the last element of the sorted list
ExistingOldest(dups) == IF Len(dups) > 0 THEN dups[Len(dups)].lid ELSE 0

\* const existing = duplicates.length > 0 ? duplicates[0] : null (0 for null)
Existing(dups) == IF Len(dups) > 0 THEN dups[1].lid ELSE 0

\* the records deleted when duplicates.length > 1: duplicates[1..]
Older(dups) == {dups[i].lid : i \in 2..Len(dups)}

\* syncProducts, "Find and deduplicate": existing is the newest record of the
\* product; every older one is deleted (errors ignored)
ProductDedup ==
    /\ pc = "product"
    /\ LET dups == Duplicates(fetched[idx].id)
       IN \E lookupOk \in StoreOutcomes :
            IF ~lookupOk
            THEN \* getFullList throws: caught by the catch of this product
                 /\ faults' = faults + 1
                 /\ storeErr' = TRUE
                 /\ Advance("product", "deleteOrphans")
                 /\ UNCHANGED <<products, existing>>
            ELSE \E failed \in FailingSubsets(Older(dups)) :
                   /\ faults' = faults + Cardinality(failed)
                   /\ storeErr' = IF failed = {} THEN storeErr ELSE TRUE
                   /\ products' = DeleteAll(Older(dups), failed)
                   /\ existing' = Existing(dups)
                   /\ pc' = "upsert"
                   /\ UNCHANGED <<fetched, idx>>
    /\ UNCHANGED <<ledgerVars, profiles, donations, nextId, coordVars, running,
                   triggerObs, atStart, seen, blobFailed, asked, prev, notFound>>
    /\ UNCHANGED <<ixVars, walletVars>>

\* existing = null
NoRecord == [lid |-> 0]

\* a variant of the image sync that requests the blob of every product that
\* has an image hash
NeedsBlobAlways(p, ex) == p.image_preview_hash # NoHash

\* "Image Sync": is the blob requested for ledger product p, given the record ex
\* found for it (ex = NoRecord when there is none)
NeedsBlob(p, ex) ==
    /\ p.image_preview_hash # NoHash
    /\ \/ ex = NoRecord
       \/ ex.image_preview = NoHash
       \/ ex.image_preview_hash # p.image_preview_hash

\* blobRes.data?.dataBlob has bytes
HasBytes(kind, hash) == kind \in {"ok", "errData"} /\ hash \in blobStore

\* the endpoint answered the dataBlob query and the ledger holds no blob of
\* that hash
NoData(kind, hash) == kind \notin {"transport", "http", "httpText"} /\ hash \notin blobStore

\* pb.collection('products').update(existing.id, data)
UpdateProduct(ex, p, gotBytes) ==
    (products \ {ex}) \cup
        {[ex EXCEPT !.price = ParsePrice(p.price),
                    !.image_preview_hash = p.image_preview_hash,
                    !.image_preview = IF gotBytes THEN p.image_preview_hash ELSE @]}

\* a variant of create that gives up when the image is missing
CreateProductWithImageOnly(p, gotBytes) ==
    IF p.image_preview_hash # NoHash /\ ~gotBytes THEN products
    ELSE products \cup
        {[lid |-> nextId, product_id |-> p.id, price |-> ParsePrice(p.price),
          image_preview_hash |-> p.image_preview_hash,
          image_preview |-> IF gotBytes THEN p.image_preview_hash ELSE NoHash]}

\* pb.collection('products').create(data)
CreateProduct(p, gotBytes) ==
    products \cup
        {[lid |-> nextId, product_id |-> p.id, price |-> ParsePrice(p.price),
          image_preview_hash |-> p.image_preview_hash,
          image_preview |-> IF gotBytes THEN p.image_preview_hash ELSE NoHash]}

\* the record the lookup found
Record(lid) ==
    IF \E r \in products : r.lid = lid
    THEN CHOOSE r \in products : r.lid = lid
    ELSE NoRecord

\* syncProducts: the FormData, the image sync and the update or create
ProductUpsert ==
    /\ pc = "upsert"
    /\ LET p == fetched[idx]
           ex == Record(existing)
           asks == NeedsBlob(p, ex)
       IN \E kind \in (IF asks THEN Answers ELSE {"ok"}) :
          \E ok \in (IF faults + Cost(kind = "ok") < MaxFaults THEN {TRUE, FALSE} ELSE {TRUE}) :
            LET gotBytes == asks /\ HasBytes(kind, p.image_preview_hash)
            IN /\ faults' = faults + Cost(kind = "ok") + Cost(ok)
               /\ storeErr' = IF ok THEN storeErr ELSE TRUE
               /\ blobFailed' = IF asks /\ ~gotBytes THEN blobFailed \cup {p.id} ELSE blobFailed
               /\ asked' = IF asks THEN asked \cup {p.id} ELSE asked
               /\ notFound' = IF asks /\ NoData(kind, p.image_preview_hash)
                               THEN notFound \cup {p.image_preview_hash} ELSE notFound
               /\ products' = IF ~ok THEN products
                              ELSE IF ex # NoRecord THEN UpdateProduct(ex, p, gotBytes)
                              ELSE CreateProduct(p, gotBytes)
               /\ nextId' = IF ok /\ ex = NoRecord THEN nextId + 1 ELSE nextId
    /\ existing' = 0
    /\ Advance("product", "deleteOrphans")
    /\ UNCHANGED <<ledgerVars, profiles, donations, coordVars, running, triggerObs,
                   atStart, seen, prev>>
    /\ UNCHANGED <<ixVars, walletVars>>

\* a variant of the deletion test with the condition inverted
OrphansInverted(chain) ==
    {r.lid : r \in {q \in products : q.product_id \in {chain[i].id : i \in 1..Len(chain)}}}

\* the records whose product_id is not among the products on chain
Orphans(chain) ==
    {r.lid : r \in {q \in products : q.product_id \notin {chain[i].id : i \in 1..Len(chain)}}}

\* syncProducts, "Deletion": getFullList, then delete every record whose
\* product_id is not on chain (each delete in its own try/catch)
DeleteOrphans ==
    /\ pc = "deleteOrphans"
    /\ \E listOk \in StoreOutcomes :
         IF ~listOk
         THEN /\ faults' = faults + 1
              /\ storeErr' = TRUE
              /\ UNCHANGED products
         ELSE \E failed \in FailingSubsets(Orphans(fetched)) :
                /\ faults' = faults + Cardinality(failed)
                /\ storeErr' = IF failed = {} THEN storeErr ELSE TRUE
                /\ products' = DeleteAll(Orphans(fetched), failed)
    /\ pc' = "finally"
    /\ UNCHANGED <<ledgerVars, profiles, donations, nextId, coordVars, fetched, idx,
                   existing, running, triggerObs, atStart, seen, blobFailed, asked, prev, notFound>>
    /\ UNCHANGED <<ixVars, walletVars>>

(***************************************************************************)
(* The environment: ledger blocks, and the mirror the indexer finds when   *)
(* it starts.                                                              *)
(***************************************************************************)
\* a block on the chain replaces the set of products, between two passes; a
\* live subscription delivers its notification (next: performSync()).  The
\* query of a pass is sent once, so a block during a pass is seen by the pass
\* as one before it or one after it.
LedgerChange ==
    /\ ledChanges < MaxLedgerChanges
    /\ ~isSyncing
    /\ boot # "init"
    /\ ledChanges' = ledChanges + 1
    /\ ledProducts' \in ProductSnaps
    /\ IF sub = "active"
       THEN performSync /\ Arrival(TRUE)
       ELSE UNCHANGED <<isSyncing, pendingSync, passVars, running, triggerObs, passObs>>
    /\ prev' = IF ledProducts' = ledProducts THEN prev ELSE FALSE
    /\ UNCHANGED <<ledProfiles, ledDonations, blobStore, mirrorVars, faults, timeouts,
                   pollTimers, sub, boot, notFound>>
    /\ UNCHANGED <<ixVars, walletVars>>

MirrorProduct(l, id, pr, h, img) ==
    [lid |-> l, product_id |-> id, price |-> pr, image_preview_hash |-> h,
     image_preview |-> img]

\* product collections found at start: empty, a pair of records sharing
\* product_id p1, a record of p2, a record of p1 holding the image of h1
ProductSeeds ==
    { {},
      {MirrorProduct(1, "p1", 5, NoHash, NoHash), MirrorProduct(2, "p1", 7, NoHash, NoHash)},
      {MirrorProduct(1, "p2", 10, NoHash, NoHash)},
      {MirrorProduct(1, "p1", 5, "h1", "h1")} }

FirstFreeId(S) == 1 + Cardinality(S)

\* the indexer process right after its module is loaded
InitIndexer ==
    /\ ledChanges = 0
    /\ faults = 0
    /\ isSyncing = FALSE
    /\ pendingSync = FALSE
    /\ timeouts = 0
    /\ pollTimers = 0
    /\ sub = "none"
    /\ boot = "init"
    /\ pc = "idle"
    /\ fetched = << >>
    /\ idx = 0
    /\ existing = 0
    /\ running = 0
    /\ burst = 0
    /\ armed = FALSE
    /\ extra = 0
    /\ owed = FALSE
    /\ atStart = [profiles |-> {}, donations |-> {}, products |-> {}]
    /\ seen = NoneSeen
    /\ storeErr = FALSE
    /\ blobFailed = {}
    /\ asked = {}
    /\ prev = FALSE
    /\ notFound = {}

\* the indexer of index.js, not started
IdleIx ==
    /\ ixBoot = "off"
    /\ ixSub = "none"
    /\ ixPoll = 0
    /\ procs = [i \in 1..MaxProcs |-> FreeProc]

\* LineraProvider after its first render: useState({ status: 'Idle', ... }),
\* no call of connectWallet in execution
InitProvider ==
    /\ status = "Idle"
    /\ flows = [f \in 1..MaxFlows |-> "none"]

Init ==
    /\ ledProfiles = << [owner |-> "a", name |-> "n1"] >>
    /\ ledDonations \in {<<Donation1>>, <<Donation1, Donation2Same>>}
    /\ ledProducts \in ProductSnaps
    /\ blobStore = {"h1"}
    /\ profiles = {}
    /\ donations = {}
    /\ products \in ProductSeeds
    /\ nextId = FirstFreeId(products)
    /\ InitIndexer
    /\ IdleIx
    /\ InitProvider

\* the steps of a pass
Pass ==
    \/ SyncProfilesFetch
    \/ ProfileStep
    \/ SyncDonationsFetch
    \/ DonationStep
    \/ SyncProductsFetch
    \/ ProductDedup
    \/ ProductUpsert
    \/ DeleteOrphans
    \/ Finally

\* the indexer on a chain whose blocks change the application state, with a
\* subscription that stays up
Next ==
    \/ Start
    \/ Subscribe
    \/ Pass
    \/ LedgerChange

Spec == Init /\ [][Next]_vars

\* the indexer on an unchanging application state: notifications of blocks
\* that leave it alone, subscription failures, polling
InitCoord ==
    /\ ledProfiles = << [owner |-> "a", name |-> "n1"], [owner |-> "b", name |-> "n1"] >>
    /\ ledDonations = <<Donation1>>
    /\ ledProducts = << [id |-> "p1", price |-> "5", image_preview_hash |-> "h1"] >>
    /\ blobStore = {"h1"}
    /\ profiles = {[lid |-> 2, owner |-> "z", name |-> "n0"]}
    /\ donations = {}
    /\ products = {MirrorProduct(1, "p2", 10, NoHash, NoHash)}
    /\ nextId = 3
    /\ InitIndexer
    /\ IdleIx
    /\ InitProvider

NextCoord ==
    \/ Start
    \/ Subscribe
    \/ Notify
    \/ SubscriptionError
    \/ SubscriptionComplete
    \/ PollTick
    \/ TimeoutFire
    \/ Pass

CoordSpec == InitCoord /\ [][NextCoord]_vars

\* the same, with the passes making progress and the timers firing
FairCoordSpec ==
    /\ CoordSpec
    /\ WF_vars(Pass)
    /\ WF_vars(TimeoutFire)
    /\ WF_vars(PollTick)

(***************************************************************************)
(* The indexer of src/indexer/index.js.  start() and the handlers of the   *)
(* subscription and of the interval timer call syncProfiles, syncDonations *)
(* and syncProducts themselves; a handler that is called while another is  *)
(* awaiting runs beside it.  A pass is one such call sequence.             *)
(***************************************************************************)
\* fetchGraphQL of index.js: fetch and response.json() may throw; the
\* caller reads result.data?.<field> || []
IxFetchGraphQL(kind, payload) ==
    CASE kind \in {"ok", "errData"} -> [threw |-> FALSE, list |-> payload]
      [] kind \in {"transport", "httpText"} -> [threw |-> TRUE, list |-> << >>]
      [] OTHER -> [threw |-> FALSE, list |-> << >>]

\* the passes in execution
Active == {i \in 1..MaxProcs : procs[i].pc # "free"}

\* the slot a new pass takes
FreeSlot == CHOOSE i \in 1..MaxProcs : procs[i].pc = "free" /\ \A j \in 1..(i - 1) : procs[j].pc # "free"

\* a handler starts the three syncs
Spawn ==
    procs' = [procs EXCEPT ![FreeSlot] = [FreeProc EXCEPT !.pc = "syncProfiles"]]

\* start(): the initial sync
IxStart ==
    /\ ixBoot = "init"
    /\ ixBoot' = "initialSync"
    /\ Spawn
    /\ UNCHANGED <<ledgerVars, mirrorVars, faults, indexerVars, walletVars, ixSub, ixPoll>>

\* start(): the initial sync returned; wsClient.subscribe inside try/catch
IxSubscribe ==
    /\ ixBoot = "initialSync"
    /\ Active = {}
    /\ ixBoot' = "subscribed"
    /\ \E ok \in StoreOutcomes :
         /\ faults' = faults + Cost(ok)
         /\ ixSub' = IF ok THEN "active" ELSE "none"
         /\ ixPoll' = IF ok THEN ixPoll ELSE ixPoll + 1
    /\ UNCHANGED <<ledgerVars, mirrorVars, indexerVars, walletVars, procs>>

\* subscribe callback next
IxNotify ==
    /\ ixSub = "active"
    /\ Cardinality(Active) < MaxProcs
    /\ Spawn
    /\ UNCHANGED <<ledgerVars, mirrorVars, faults, indexerVars, walletVars, ixBoot, ixSub, ixPoll>>

\* subscribe callback error: startPolling()
IxSubscriptionError ==
    /\ ixSub = "active"
    /\ ixSub' = "error"
    /\ ixPoll' = ixPoll + 1
    /\ UNCHANGED <<ledgerVars, mirrorVars, faults, indexerVars, walletVars, ixBoot, procs>>

\* subscribe callback complete: only logs
IxSubscriptionComplete ==
    /\ ixSub = "active"
    /\ ixSub' = "complete"
    /\ UNCHANGED <<ledgerVars, mirrorVars, faults, indexerVars, walletVars, ixBoot, ixPoll, procs>>

\* the interval timer of startPolling fires
IxPollTick ==
    /\ ixPoll > 0
    /\ Cardinality(Active) < MaxProcs
    /\ Spawn
    /\ UNCHANGED <<ledgerVars, mirrorVars, faults, indexerVars, walletVars, ixBoot, ixSub, ixPoll>>

\* pass i after the query of a sync function returned or threw
IxEnter(i, result, loopPc, donePc, skipPc) ==
    [procs[i] EXCEPT
        !.fetched = result.list,
        !.idx = IF ~result.threw /\ result.list # << >> THEN 1 ELSE 0,
        !.pc = IF result.threw THEN skipPc
               ELSE IF result.list # << >> THEN loopPc ELSE donePc]

\* pass i after one iteration of a loop
IxAdvance(i, loopPc, donePc, failed) ==
    [procs[i] EXCEPT
        !.idx = IF @ < Len(procs[i].fetched) THEN @ + 1 ELSE 0,
        !.pc = IF procs[i].idx < Len(procs[i].fetched) THEN loopPc ELSE donePc,
        !.found = 0,
        !.storeErr = IF failed THEN TRUE ELSE @]

\* syncProfiles: the query
IxSyncProfilesFetch(i) ==
    /\ procs[i].pc = "syncProfiles"
    /\ \E kind \in Answers :
         /\ faults' = faults + Cost(kind = "ok")
         /\ procs' = [procs EXCEPT ![i] =
                IxEnter(i, IxFetchGraphQL(kind, ledProfiles), "profile",
                        "syncDonations", "syncDonations")]
    /\ UNCHANGED <<ledgerVars, mirrorVars, indexerVars, walletVars, ixBoot, ixSub, ixPoll>>

\* syncProfiles: one iteration (getFirstListItem, then update, or create in
\* the catch block; a throw of create leaves the loop)
IxProfileStep(i) ==
    /\ procs[i].pc = "profile"
    /\ LET p == procs[i].fetched[procs[i].idx]
           matches == {r \in profiles : r.owner = p.owner}
       IN \E lookupOk \in StoreOutcomes :
            IF ~lookupOk
            THEN /\ faults' = faults + 1
                 /\ procs' = [procs EXCEPT ![i] = IxAdvance(i, "profile", "syncDonations", TRUE)]
                 /\ UNCHANGED mirrorVars
            ELSE IF matches # {}
            THEN \E r \in matches : \E ok \in StoreOutcomes :
                   /\ faults' = faults + Cost(ok)
                   /\ profiles' = IF ok THEN UpdateProfile(r, p) ELSE profiles
                   /\ procs' = [procs EXCEPT ![i] = IxAdvance(i, "profile", "syncDonations", ~ok)]
                   /\ UNCHANGED <<donations, products, nextId>>
            ELSE \E ok \in StoreOutcomes :
                   /\ faults' = faults + Cost(ok)
                   /\ profiles' = IF ok THEN CreateProfile(p) ELSE profiles
                   /\ nextId' = IF ok THEN nextId + 1 ELSE nextId
                   /\ procs' = [procs EXCEPT ![i] =
                          IF ok THEN IxAdvance(i, "profile", "syncDonations", FALSE)
                          ELSE [procs[i] EXCEPT !.pc = "syncDonations", !.idx = 0,
                                                !.storeErr = TRUE]]
                   /\ UNCHANGED <<donations, products>>
    /\ UNCHANGED <<ledgerVars, indexerVars, walletVars, ixBoot, ixSub, ixPoll>>

\* syncDonations: the query
IxSyncDonationsFetch(i) ==
    /\ procs[i].pc = "syncDonations"
    /\ \E kind \in Answers :
         /\ faults' = faults + Cost(kind = "ok")
         /\ procs' = [procs EXCEPT ![i] =
                IxEnter(i, IxFetchGraphQL(kind, ledDonations), "donation",
                        "syncProducts", "syncProducts")]
    /\ UNCHANGED <<ledgerVars, mirrorVars, indexerVars, walletVars, ixBoot, ixSub, ixPoll>>

\* syncDonations: one iteration (getList by from, to, timestamp and amount;
\* create when it finds nothing)
IxDonationStep(i) ==
    /\ procs[i].pc = "donation"
    /\ LET d == procs[i].fetched[procs[i].idx]
       IN \E lookupOk \in StoreOutcomes :
            IF lookupOk /\ DonationMatches(d) = {}
            THEN \E ok \in StoreOutcomes :
                   /\ faults' = faults + Cost(ok)
                   /\ donations' = IF ok THEN CreateDonation(d) ELSE donations
                   /\ nextId' = IF ok THEN nextId + 1 ELSE nextId
                   /\ procs' = [procs EXCEPT ![i] = IxAdvance(i, "donation", "syncProducts", ~ok)]
            ELSE /\ faults' = faults + Cost(lookupOk)
                 /\ procs' = [procs EXCEPT ![i] =
                        IxAdvance(i, "donation", "syncProducts", ~lookupOk)]
                 /\ UNCHANGED <<donations, nextId>>
    /\ UNCHANGED <<ledgerVars, profiles, products, indexerVars, walletVars, ixBoot, ixSub, ixPoll>>

\* syncProducts: the query; an answer without data reads as the empty list
IxSyncProductsFetch(i) ==
    /\ procs[i].pc = "syncProducts"
    /\ \E kind \in Answers :
         /\ faults' = faults + Cost(kind = "ok")
         /\ procs' = [procs EXCEPT ![i] =
                [IxEnter(i, IxFetchGraphQL(kind, ledProducts), "product", "deletion", "done")
                    EXCEPT !.seen = Outcome(kind)]]
    /\ UNCHANGED <<ledgerVars, mirrorVars, indexerVars, walletVars, ixBoot, ixSub, ixPoll>>

\* syncProducts: getList(1, 1, { filter: product_id_linera = p.id }); the
\* store returns any one of the matching records
IxProductLookup(i) ==
    /\ procs[i].pc = "product"
    /\ LET p == procs[i].fetched[procs[i].idx]
           matches == {r.lid : r \in {q \in products : q.product_id = p.id}}
       IN \E lookupOk \in StoreOutcomes :
            IF ~lookupOk
            THEN /\ faults' = faults + 1
                 /\ procs' = [procs EXCEPT ![i] = IxAdvance(i, "product", "deletion", TRUE)]
            ELSE /\ faults' = faults
                 /\ \E lid \in (IF matches = {} THEN {0} ELSE matches) :
                      procs' = [procs EXCEPT ![i] = [@ EXCEPT !.found = lid, !.pc = "write"]]
    /\ UNCHANGED <<ledgerVars, mirrorVars, indexerVars, walletVars, ixBoot, ixSub, ixPoll>>

\* syncProducts: update(existing.id, data) or create(data); data holds no
\* image field; an update of a record deleted meanwhile throws
IxProductWrite(i) ==
    /\ procs[i].pc = "write"
    /\ LET p == procs[i].fetched[procs[i].idx]
           ex == Record(procs[i].found)
       IN IF procs[i].found # 0 /\ ex = NoRecord
          THEN /\ procs' = [procs EXCEPT ![i] = IxAdvance(i, "product", "deletion", TRUE)]
               /\ UNCHANGED <<products, nextId, faults>>
          ELSE \E ok \in StoreOutcomes :
                 /\ faults' = faults + Cost(ok)
                 /\ products' =
                      IF ~ok THEN products
                      ELSE IF procs[i].found # 0
                      THEN (products \ {ex}) \cup {[ex EXCEPT !.price = ParsePrice(p.price)]}
                      ELSE CreateProduct([p EXCEPT !.image_preview_hash = NoHash], FALSE)
                 /\ nextId' = IF ok /\ procs[i].found = 0 THEN nextId + 1 ELSE nextId
                 /\ procs' = [procs EXCEPT ![i] = IxAdvance(i, "product", "deletion", ~ok)]
    /\ UNCHANGED <<ledgerVars, profiles, donations, indexerVars, walletVars, ixBoot, ixSub, ixPoll>>

\* the records getFullList returned that come before record lid
Before(lid, S) == {m \in S : m < lid}

\* syncProducts, "Deletion Sync": getFullList, then delete every record whose
\* product_id_linera is not in the fetched list; the first delete that fails
\* ends the function
IxDeletion(i) ==
    /\ procs[i].pc = "deletion"
    /\ \E listOk \in StoreOutcomes :
         IF ~listOk
         THEN /\ faults' = faults + 1
              /\ procs' = [procs EXCEPT ![i] = [@ EXCEPT !.pc = "done", !.storeErr = TRUE]]
              /\ UNCHANGED products
         ELSE LET orphans == Orphans(procs[i].fetched)
              IN \E failing \in (IF faults < MaxFaults THEN orphans \cup {0} ELSE {0}) :
                   LET gone == IF failing = 0 THEN orphans ELSE Before(failing, orphans)
                   IN /\ faults' = faults + Cost(failing = 0)
                      /\ products' = {r \in products : r.lid \notin gone}
                      /\ procs' = [procs EXCEPT ![i] =
                             [@ EXCEPT !.pc = "done",
                                       !.storeErr = IF failing # 0 THEN TRUE ELSE @,
                                       !.deleted = gone # {}]]
    /\ UNCHANGED <<ledgerVars, profiles, donations, nextId, indexerVars, walletVars, ixBoot, ixSub, ixPoll>>

\* syncProducts returned: the handler ends
IxFinish(i) ==
    /\ procs[i].pc = "done"
    /\ procs' = [procs EXCEPT ![i] = FreeProc]
    /\ UNCHANGED <<ledgerVars, mirrorVars, faults, indexerVars, walletVars, ixBoot, ixSub, ixPoll>>

\* one step of one of the passes in execution
IxPass ==
    \E i \in 1..MaxProcs :
        \/ IxSyncProfilesFetch(i)
        \/ IxProfileStep(i)
        \/ IxSyncDonationsFetch(i)
        \/ IxDonationStep(i)
        \/ IxSyncProductsFetch(i)
        \/ IxProductLookup(i)
        \/ IxProductWrite(i)
        \/ IxDeletion(i)
        \/ IxFinish(i)

\* the ledger and the mirror index.js is started on
InitIdx ==
    /\ ledProfiles = << [owner |-> "a", name |-> "n1"] >>
    /\ ledDonations = <<Donation1>>
    /\ ledProducts \in { << [id |-> "p1", price |-> "5", image_preview_hash |-> NoHash] >>,
                         << [id |-> "p1", price |-> "5", image_preview_hash |-> NoHash],
                            Product2 >> }
    /\ blobStore = {"h1"}
    /\ profiles = {}
    /\ donations = {}
    /\ products \in {{}, {MirrorProduct(1, "p2", 10, NoHash, NoHash)}}
    /\ nextId = FirstFreeId(products)
    /\ InitIndexer
    /\ ixBoot = "init"
    /\ ixSub = "none"
    /\ ixPoll = 0
    /\ procs = [i \in 1..MaxProcs |-> FreeProc]
    /\ InitProvider

NextIdx ==
    \/ IxStart
    \/ IxSubscribe
    \/ IxNotify
    \/ IxSubscriptionError
    \/ IxSubscriptionComplete
    \/ IxPollTick
    \/ IxPass

IdxSpec == InitIdx /\ [][NextIdx]_vars

(***************************************************************************)
(* Properties of the reconciliation passes.                                *)
(***************************************************************************)
Lids(S) == {r.lid : r \in S}

\* the records of S that mirror ledger product id
Of(S, id) == {r \in S : r.product_id = id}

\* the most recently created record of product id when the pass started
NewestAtStart(id) ==
    LET old == Of(atStart.products, id)
    IN IF old = {} THEN NoRecord ELSE CHOOSE r \in old : \A q \in old : q.lid <= r.lid

\* one mirror record per ledger product, carrying the ledger's price
MirrorMatchesLedger ==
    /\ {<<r.product_id, r.price>> : r \in products}
         = {<<q.id, ParsePrice(q.price)>> : q \in Range(ledProducts)}
    /\ Cardinality(products) = Len(ledProducts)

\* C1: at any time at most one reconciliation pass is executing, whether it
\* was started by start(), a notification, the polling timer or a queued
\* re-run; this is stated for the coordinated indexer (running) and for
\* index.js (Active)
C1_AtMostOnePass == running <= 1 /\ Cardinality(Active) <= 1

\* C2: when two or more triggers arrived during a pass and none arrives after
\* it (armed), at most one further pass is started by the queued re-runs
C2_OneAdditionalPass == armed => extra <= 1

\* C3: in a pass whose product query failed (transport failure, non-success
\* status, errors without data) no product record is deleted: every record
\* present when the pass started is still there, and a pass of index.js has
\* deleted nothing
C3_NoDeletionOnFailedFetch ==
    /\ (isSyncing /\ seen.products = "failed")
         => Lids(atStart.products) \subseteq Lids(products)
    /\ \A i \in 1..MaxProcs : procs[i].seen = "failed" => ~procs[i].deleted

\* C4: a clean pass that follows a clean pass over an unchanged ledger leaves
\* every collection as it found it (so it creates nothing), with exactly one
\* mirror record per ledger record
C4_SecondPassIdempotent ==
    (pc = "finally" /\ prev /\ CleanPass)
      => /\ <<profiles, donations, products>>
              = <<atStart.profiles, atStart.donations, atStart.products>>
         /\ Cardinality(profiles) = Len(ledProfiles)
         /\ Cardinality(donations) = Len(ledDonations)
         /\ Cardinality(products) = Len(ledProducts)

ExpectedImage(p) ==
    LET ex == NewestAtStart(p.id)
    IN IF NeedsBlob(p, ex) /\ p.id \notin blobFailed THEN p.image_preview_hash
       ELSE IF ex = NoRecord THEN NoHash
       ELSE ex.image_preview

\* the products query of the running pass returned data
ProductsFetched == seen.products \in {"ok", "errors"}

C7_MirrorEqualsLedger ==
    /\ (pc = "finally" /\ seen.products = "ok" /\ ~storeErr) => MirrorMatchesLedger
    /\ \A i \in 1..MaxProcs :
         (procs[i].pc = "done" /\ procs[i].seen = "ok" /\ ~procs[i].storeErr)
           => MirrorMatchesLedger

\* C8: once a polling timer runs, a fresh subscribe attempt follows and
\* succeeds against a reachable endpoint, and from then on no polling timer
\* is left
C8_PollingEndsOnResubscribe == (pollTimers > 0) ~> (sub = "active" /\ pollTimers = 0)

\* C9: after start() has subscribed, the system always has a live subscription
\* or a polling timer, in the coordinated indexer and in index.js
C9_SubscribedOrPolling ==
    /\ boot = "subscribed" => (sub = "active" \/ pollTimers > 0)
    /\ ixBoot = "subscribed" => (ixSub = "active" \/ ixPoll > 0)

\* C10: a trigger that arrived while a pass was running (owed) is eventually
\* followed by the start of a pass
C10_TriggerEventuallyServed == owed ~> ~owed

\* a burst of triggers during a pass has been followed by exactly one pass
\* started by the queued re-run
C10_RerunStarted == armed /\ extra = 1 /\ ~owed /\ isSyncing

\* C11: the mirror never holds two records of one ledger entity: two profiles
\* of one owner, two donations of one (from, to, timestamp, amount), the key
\* the indexers know a donation by, or two products of one product id
C11_OneRecordPerExternalId ==
    /\ \A r, q \in profiles : r.owner = q.owner => r = q
    /\ \A r, q \in donations :
         (/\ r.from_owner = q.from_owner
          /\ r.to_owner = q.to_owner
          /\ r.timestamp = q.timestamp
          /\ r.amount = q.amount) => r = q
    /\ \A r, q \in products : r.product_id = q.product_id => r = q

\* C12: in a pass whose query for an entity type was answered with a non-empty
\* error list, with or without data beside it, the records of that type are
\* left as the pass found them
C12_ErrorListIsFailure ==
    isSyncing
      => /\ seen.profiles = "errors" => profiles = atStart.profiles
         /\ seen.donations = "errors" => donations = atStart.donations
         /\ seen.products = "errors" => products = atStart.products

\* the ledger profiles that have no up-to-date record in the mirror
UnsyncedProfiles ==
    {i \in 1..Len(ledProfiles) :
        ~\E r \in profiles : r.owner = ledProfiles[i].owner /\ r.name = ledProfiles[i].name}

\* C13: a store failure on one record does not keep the remaining records
\* from being processed: once the first pass is past its profiles, whose
\* query succeeded, every profile still unsynced is accounted for by a failed
\* call of its own, so there are no more of them than calls have failed
C13_RemainingRecordsProcessed ==
    (/\ boot = "initialSync"
     /\ pc \in {"syncDonations", "donation", "syncProducts", "finally"}
     /\ seen.profiles = "ok")
      => Cardinality(UnsyncedProfiles) <= faults

\* a query or a store call of the running pass has failed
PassFailed ==
    \/ storeErr
    \/ \E t \in {"profiles", "donations", "products"} : seen[t] = "failed"

\* C14: a failure while syncing one entity type keeps neither the later types
\* of the pass from being synced nor the coordinator from going on: a pass
\* that is at its products has sent the profiles and the donations query, a
\* pass at its end has sent all three, and a pass with a failure ends with the
\* coordinator idle again
C14_FailureStopsNothing ==
    /\ [](pc \in {"syncProducts", "product", "upsert", "deleteOrphans", "finally"}
            => (seen.profiles # "none" /\ seen.donations # "none"))
    /\ [](pc = "finally" => seen.products # "none")
    /\ ((isSyncing /\ PassFailed) ~> (~isSyncing /\ pc = "idle"))

\* a pass whose profiles query failed has synced donations and products
C14_LaterTypesSynced ==
    /\ pc = "finally"
    /\ seen.profiles = "failed"
    /\ seen.donations = "ok"
    /\ seen.products = "ok"
    /\ donations # {}

\* C15: while a queued re-run is outstanding after a completed pass, the next
\* pass to start is that re-run: no other call of performSync starts a pass
\* before it
C15_RerunIsNextPass ==
    [][(~isSyncing /\ timeouts > 0 /\ isSyncing') => timeouts' = timeouts - 1]_vars

(***************************************************************************)
(* Calls that never answer.  fetchGraphQL passes no signal to fetch and    *)
(* the PocketBase client is given no timeout, so the await of a call whose *)
(* peer stays silent is resolved by nothing in the program.                *)
(***************************************************************************)
\* the positions of a pass that await a ledger, blob or store call
Awaiting ==
    {"syncProfiles", "profile", "syncDonations", "donation", "syncProducts", "product",
     "upsert", "deleteOrphans"}

\* the call the pass awaits never answers
Hang ==
    /\ isSyncing
    /\ pc \in Awaiting
    /\ pc' = "hung"
    /\ UNCHANGED <<ledgerVars, mirrorVars, faults, coordVars, fetched, idx, existing,
                   running, triggerObs, passObs, prev,
                   notFound, ixVars, walletVars>>

NextHang ==
    \/ NextCoord
    \/ Hang

\* timers fire and every call that answers lets the pass go on
HangSpec ==
    InitCoord /\ [][NextHang]_vars /\ WF_vars(Pass) /\ WF_vars(TimeoutFire) /\ WF_vars(PollTick)

\* C16: every started pass eventually completes and releases the coordinator,
\* also when a call it awaits never answers
C16_PassCompletes == isSyncing ~> ~isSyncing

\* C17: a pass that ends with a failed query is eventually followed by the
\* start of another pass, whether or not a notification arrives, as long as
\* the subscription is not lost
C17_FailedFetchRetried ==
    (pc = "finally" /\ \E t \in {"profiles", "donations", "products"} : seen[t] = "failed")
      ~> (pc = "syncProfiles" \/ sub \in {"error", "complete"})

\* the entity type a pass is at: 0 for no pass, 1 profiles, 2 donations,
\* 3 products, 4 the end of the pass
Phase(p) ==
    CASE p = "idle" -> 0
      [] p \in {"syncProfiles", "profile"} -> 1
      [] p \in {"syncDonations", "donation"} -> 2
      [] p \in {"syncProducts", "product", "upsert", "deleteOrphans"} -> 3
      [] OTHER -> 4

\* C18: a pass goes from profiles to donations to products to its end, one
\* step of the order at a time; each collection is written only while the pass
\* is at its entity type; a trigger during the pass leaves the position and the
\* locals of the pass alone; and every started pass reaches its end
C18_FixedOrderToCompletion ==
    /\ [][/\ Phase(pc') \in {Phase(pc), (Phase(pc) + 1) % 5}
          /\ profiles' # profiles => Phase(pc) = 1
          /\ donations' # donations => Phase(pc) = 2
          /\ products' # products => Phase(pc) = 3
          /\ (isSyncing /\ pendingSync' # pendingSync /\ isSyncing') => UNCHANGED passVars]_vars
    /\ (isSyncing ~> (pc = "finally"))

\* a pass has reached its end with all three types synced although two
\* triggers arrived while it ran
C18_CompletedUnderTriggers ==
    /\ pc = "finally"
    /\ pendingSync
    /\ burst = 2
    /\ seen = [profiles |-> "ok", donations |-> "ok", products |-> "ok"]

\* C19: at the end of a pass without store error, when the profiles query
\* succeeded every profile record belongs to a ledger profile, and when the
\* donations query succeeded every donation record belongs to a ledger donation
C19_NoOrphanProfilesOrDonations ==
    (pc = "finally" /\ ~storeErr)
      => /\ seen.profiles = "ok"
              => \A r \in profiles : \E i \in 1..Len(ledProfiles) : ledProfiles[i].owner = r.owner
         /\ seen.donations = "ok"
              => \A r \in donations : \E i \in 1..Len(ledDonations) :
                     /\ ledDonations[i].from = r.from_owner
                     /\ ledDonations[i].to = r.to_owner
                     /\ ledDonations[i].timestamp = r.timestamp
                     /\ ParseAmount(ledDonations[i].amount) = r.amount

\* C20: a blob reference is left for retry: whenever a pass is about to write
\* a product whose ledger image hash is not the hash the record's image was
\* fetched for (no record, no image, or an image of an earlier hash that a
\* failed fetch left in place), the blob is requested
C20_BlobRequestedAgain ==
    pc = "upsert"
      => LET p == fetched[idx]
             ex == Record(existing)
         IN (/\ p.image_preview_hash # NoHash
             /\ (ex = NoRecord \/ ex.image_preview # p.image_preview_hash))
              => NeedsBlob(p, ex)

\* C21: a hash the ledger answered to hold no blob for is not requested
\* again: no pass issues a blob request for a hash in notFound
C21_NotFoundNotRequestedAgain ==
    [][(pc = "upsert" /\ asked' # asked) => fetched[idx].image_preview_hash \notin notFound]_vars

\* C22: a blob is requested only for a product whose hash the mirror does not
\* reflect yet: when the record found for the product was last written with
\* the hash the ledger gives now and holds the image fetched for that hash,
\* the upsert issues no blob request
C22_NoRequestOnceImageHeld ==
    [][(/\ pc = "upsert"
        /\ Record(existing) # NoRecord
        /\ Record(existing).image_preview_hash = fetched[idx].image_preview_hash
        /\ Record(existing).image_preview = fetched[idx].image_preview_hash)
          => asked' = asked]_vars

\* a pass ends without a blob request although the ledger gives p1 the hash h1:
\* the record an earlier pass of this run created holds the image of h1
C22_SecondPassSkipsRequest ==
    /\ pc = "finally"
    /\ seen.products = "ok"
    /\ ~storeErr
    /\ asked = {}
    /\ \E i \in 1..Len(fetched) : fetched[i].id = "p1" /\ fetched[i].image_preview_hash = "h1"
    /\ \E r \in atStart.products :
         /\ r.lid >= 3
         /\ r.product_id = "p1"
         /\ r.image_preview_hash = "h1"
         /\ r.image_preview = "h1"

\* the distinct donation ids the ledger returns
DonationIds == {ledDonations[i].id : i \in 1..Len(ledDonations)}

\* C23: at the end of a pass whose donations query succeeded and in which no
\* store call failed, there are as many donation records as the ledger
\* returned distinct donation ids, also when two donations share sender,
\* receiver, timestamp and amount
C23_OneRecordPerDonationId ==
    (pc = "finally" /\ seen.donations = "ok" /\ ~storeErr)
      => Cardinality(donations) = Cardinality(DonationIds)

(***************************************************************************)
(* The marketplace UI: CreateProductModal.handleSubmit writes a record to  *)
(* the products collection of the same PocketBase store.                   *)
(***************************************************************************)
MaxLid == 8

\* a record without product_id
NoId == ""

\* accountOwner of a wallet that is not connected
NoOwner == ""

\* handleSubmit: returns when name, description or price is missing or no
\* wallet is connected; else pb.collection('products').create({...}) with
\* the form's fields (no product_id, no image_preview_hash), errors caught
handleSubmit ==
    /\ nextId < MaxLid
    /\ \E filled \in BOOLEAN, accountOwner \in {NoOwner, "a"}, ok \in StoreOutcomes :
         IF ~filled \/ accountOwner = NoOwner
         THEN UNCHANGED <<products, nextId, faults>>
         ELSE /\ faults' = faults + Cost(ok)
              /\ products' = IF ok THEN products \cup {MirrorProduct(nextId, NoId, ParsePrice("5"), NoHash, NoHash)}
                             ELSE products
              /\ nextId' = IF ok THEN nextId + 1 ELSE nextId
    /\ UNCHANGED <<ledgerVars, profiles, donations, indexerVars, walletVars, ixVars>>

NextUi ==
    \/ NextCoord
    \/ handleSubmit

\* the coordinated indexer beside a marketplace UI in use
UiSpec == InitCoord /\ [][NextUi]_vars

\* C24: the profiles, donations and products collections change only in a
\* step of a running pass of one of the indexers' sync functions
C24_OnlyReconcilerWrites ==
    [][(<<profiles, donations, products>>' # <<profiles, donations, products>>)
         => ((isSyncing /\ pc' # pc) \/ procs' # procs)]_vars

\* C25: the pending flag is set only while a pass is running
C25_PendingOnlyWhileSyncing == pendingSync => isSyncing

\* a pass during which a trigger set the pending flag has ended: the flag is
\* cleared, the coordinator is idle and the re-run timer is outstanding
C25_PendingClearedAtEnd == ~isSyncing /\ ~pendingSync /\ pc = "idle" /\ timeouts > 0

(***************************************************************************)
(* An exception that escapes a sync function: performSync catches it, logs *)
(* it and runs its finally block.                                          *)
(***************************************************************************)
\* a variant without the finally block: the exception ends the pass and the
\* flag stays as it is
SyncThrowsNoFinally ==
    /\ isSyncing
    /\ pc \in Awaiting
    /\ pc' = "idle"
    /\ running' = running - 1
    /\ UNCHANGED <<ledgerVars, mirrorVars, faults, coordVars, fetched, idx, existing,
                   triggerObs, passObs, prev, notFound, ixVars, walletVars>>

\* the await of syncProfiles, syncDonations or syncProducts throws: the catch
\* block of performSync logs the error, the finally block is next
SyncThrows ==
    /\ isSyncing
    /\ pc \in Awaiting
    /\ pc' = "finally"
    /\ running' = running
    /\ UNCHANGED <<ledgerVars, mirrorVars, faults, coordVars, fetched, idx, existing,
                   triggerObs, passObs, prev, notFound, ixVars, walletVars>>

NextThrow ==
    \/ NextCoord
    \/ SyncThrows

ThrowSpec == InitCoord /\ [][NextThrow]_vars

\* C26: isSyncing is true exactly while a pass is executing: it is set in
\* every state in which a pass is in execution and clear in every state in
\* which none is, so a trigger handled after a pass ended, whether the pass
\* completed or an exception escaped a sync function, finds it clear
C26_SyncingIffPassRuns ==
    /\ isSyncing <=> running = 1
    /\ isSyncing <=> pc # "idle"

\* the first pass has ended, no call has failed and yet nothing was written:
\* an exception ended the pass, and the flag is clear
C26_EndedByException ==
    /\ boot = "initialSync"
    /\ pc = "idle"
    /\ ~isSyncing
    /\ running = 0
    /\ faults = 0
    /\ profiles = {[lid |-> 2, owner |-> "z", name |-> "n0"]}

\* C27: at most one delayed re-run (setTimeout(performSync, 500)) is
\* outstanding at any time
C27_AtMostOneRerunTimer == timeouts <= 1

\* the product ids of a fetched list
IdsOf(list) == {list[i].id : i \in 1..Len(list)}

\* C28: the deletion step of syncProducts removes no record whose product id
\* is in the list the pass fetched, also after a store error earlier in the
\* pass; stated for the coordinated indexer and for the passes of index.js
C28_FetchedNeverOrphaned ==
    [][/\ pc = "deleteOrphans"
            => \A r \in products : r.product_id \in IdsOf(fetched) => r \in products'
       /\ \A i \in 1..MaxProcs :
            (procs[i].pc = "deletion" /\ procs'[i].pc = "done")
              => \A r \in products :
                   r.product_id \in IdsOf(procs[i].fetched) => r \in products']_vars

\* a pass ends in which the update of a fetched product failed, leaving its
\* record with the old price, and the deletion step removed an orphan
C28_KeptAfterFailedUpsert ==
    /\ pc = "finally"
    /\ storeErr
    /\ \E i \in 1..Len(fetched) : \E r \in products :
         /\ r.product_id = fetched[i].id
         /\ r.price # ParsePrice(fetched[i].price)
         /\ r \in atStart.products
    /\ \E q \in atStart.products :
         q.product_id \notin IdsOf(fetched) /\ q.lid \notin Lids(products)

\* is there a donation record with the sender, receiver, timestamp and amount
\* of ledger donation d
Mirrored(d) ==
    \E r \in donations :
        /\ r.from_owner = d.from
        /\ r.to_owner = d.to
        /\ r.timestamp = d.timestamp
        /\ r.amount = ParseAmount(d.amount)

\* C29: donation sync is insert-only: every donation record stays as it is,
\* and the collection grows only by one record in a step of a pass that is at
\* a ledger donation no record was found for; stated for the coordinated
\* indexer and for the passes of index.js
C29_DonationsInsertOnly ==
    [][/\ donations \subseteq donations'
       /\ donations' # donations
            => /\ Cardinality(donations') = Cardinality(donations) + 1
               /\ \/ pc = "donation" /\ <<pc, idx>>' # <<pc, idx>> /\ ~Mirrored(fetched[idx])
                  \/ \E i \in 1..MaxProcs :
                       /\ procs[i].pc = "donation"
                       /\ procs'[i] # procs[i]
                       /\ ~Mirrored(procs[i].fetched[procs[i].idx])]_vars

\* a pass has gone through the ledger's donations, found a record for each of
\* them and left the collection as it was
C29_ExistingLeftAlone ==
    /\ pc = "syncProducts"
    /\ seen.donations = "ok"
    /\ ~storeErr
    /\ atStart.donations # {}
    /\ donations = atStart.donations
    /\ \A i \in 1..Len(ledDonations) : Mirrored(ledDonations[i])

(***************************************************************************)
(* The web client's wallet connection: connectWallet of LineraProvider.    *)
(* A call runs from one await to the next; state.status is what the guard  *)
(* of the next call reads.                                                 *)
(***************************************************************************)
\* the calls connectWallet awaits, in order
Awaits ==
    << "initialize", "metaMaskAddress", "autosignerAddress", "createWallet", "claimChain",
       "newClient", "chain", "application", "addOwner", "setOwner" >>

\* the place of an awaited call in Awaits
AwaitIndex(call) == CHOOSE k \in 1..Len(Awaits) : Awaits[k] = call

\* the status connectWallet sets once the awaited call has returned: before
\* createWallet, claimChain and new Client, and at the end
StatusAfter(call) ==
    CASE call = "autosignerAddress" -> "Creating Wallet"
      [] call = "createWallet" -> "Creating Chain"
      [] call = "claimChain" -> "Creating Client"
      [] call = "setOwner" -> "Ready"
      [] OTHER -> status

\* the calls of connectWallet in execution
Connecting == {f \in 1..MaxFlows : flows[f] # "none"}

\* if (state.status === 'Loading' || state.status === 'Ready') return;
ReturnsAtOnce == status \in {"Loading", "Ready"}

\* connectWallet(): the guard, setState(status: 'Loading'), await initialize()
connectWallet ==
    /\ IF ReturnsAtOnce
       THEN UNCHANGED walletVars
       ELSE /\ Connecting # 1..MaxFlows
            /\ LET f == CHOOSE g \in 1..MaxFlows : flows[g] = "none"
               IN flows' = [flows EXCEPT ![f] = "initialize"]
            /\ status' = "Loading"
    /\ UNCHANGED <<ledgerVars, mirrorVars, faults, indexerVars, ixVars>>

\* the call that flow f awaits returns, and the flow runs to its next await
\* or to its end; or it throws, and the catch block sets status 'Error'
Resume(f) ==
    /\ flows[f] # "none"
    /\ \E ok \in BOOLEAN :
         IF ok
         THEN /\ status' = StatusAfter(flows[f])
              /\ flows' = [flows EXCEPT ![f] =
                     IF AwaitIndex(@) < Len(Awaits) THEN Awaits[AwaitIndex(@) + 1] ELSE "none"]
         ELSE /\ status' = "Error"
              /\ flows' = [flows EXCEPT ![f] = "none"]
    /\ UNCHANGED <<ledgerVars, mirrorVars, faults, indexerVars, ixVars>>

NextWallet ==
    \/ connectWallet
    \/ \E f \in 1..MaxFlows : Resume(f)

WalletSpec == InitCoord /\ [][NextWallet]_vars

\* C30: a connection flow starts only when none is in execution and the
\* status is 'Idle' or 'Error': while an attempt is in progress or has
\* succeeded, connectWallet starts nothing
C30_OneConnectionFlow ==
    [][Cardinality(Connecting') > Cardinality(Connecting)
         => (Connecting = {} /\ status \in {"Idle", "Error"})]_vars

====
